---- MODULE Spec2Model ----
(***************************************************************************)
(* Model of jax/_src/pallas/mosaic/primitives.py: the Pallas TPU           *)
(* primitives trace, run_scoped, semaphore_signal / semaphore_wait and     *)
(* dma_start / remote_dma_start / DMAFuture.wait, seen as the sequence of  *)
(* operations (equations) that binding them emits into the caller's        *)
(* tracing context.                                                        *)
(***************************************************************************)
EXTENDS Integers, Sequences, FiniteSets, TLC

VARIABLES
  ops,      \* equations emitted so far in the caller's tracing context
  futures,  \* the DMAFuture objects created so far (object identity = index)
  hist,     \* per future: which call made it, and how often wait() ran on it
  stack,    \* the open trace(...) scopes, innermost last
  exc,      \* TRUE while an exception raised in a guarded region propagates
  last      \* the last call made: its inputs, its error (if any), its result

vars == <<ops, futures, hist, stack, exc, last>>

\* ---------------------------------------------------------------- bounds
MaxOps == 2        \* DMA: equations emitted
MaxWaits == 3      \* DMA: wait() calls after one start
MaxSemOps == 2     \* semaphores: equations emitted
MaxScopedOps == 1  \* run_scoped: equations emitted
MaxConsts == 2     \* run_scoped: constants a body closes over
MaxScopes == 2     \* trace: scopes entered
MaxDepth == 2      \* trace: nesting depth of scopes

\* ---------------------------------------------------------------- values
\* Every operand is one record shape, so that operands of all kinds can sit
\* in one flat argument list.
Val(k, id, ty, shape, indices) ==
  [k |-> k, id |-> id, ty |-> ty, shape |-> shape, indices |-> indices]

None == Val("none", 0, "", <<>>, <<>>)

Ref(id, shape) == Val("ref", id, "", shape, <<>>)

Semaphore(id, sem_type) == Val("sem", id, sem_type, <<>>, <<>>)

\* A scalar array; id holds twice its value, so that 1.5 is representable.
Array(dtype, twice) == Val("array", twice, dtype, <<>>, <<>>)

IntLeaf(i) == Val("int", i, "int32", <<>>, <<>>)

Indices(ix) == Val("indices", 0, "", <<>>, ix)

NDIndexer(indices, shape) == Val("indexer", 0, "", shape, indices)

NoJaxpr == [nconsts |-> 0, ninvars |-> 0, effects |-> {}, neqns |-> 0]

NoParams == [has_device_id |-> FALSE, message |-> "", level |-> 0, jaxpr |-> NoJaxpr]

\* primitive.bind(*args, **params): the equation recorded in the context.
Bind(name, args, tree, params, effects) ==
  [name |-> name, args |-> args, tree |-> tree, params |-> params,
   effects |-> effects, results |-> <<>>]

Call(call, args, err, ret, jaxpr) ==
  [call |-> call, args |-> args, err |-> err, ret |-> ret, jaxpr |-> jaxpr]

NoCall == Call("", <<>>, "", <<>>, NoJaxpr)

Count(s, name) == Cardinality({i \in DOMAIN s : s[i].name = name})

\* ------------------------------------------------- tree_util (external)
TreeNode(v) ==
  IF v.k = "none" THEN [kind |-> "none", n |-> 0, shape |-> <<>>]
  ELSE IF v.k = "indexer"
       THEN [kind |-> "indexer", n |-> Len(v.indices), shape |-> v.shape]
       ELSE [kind |-> "leaf", n |-> 1, shape |-> <<>>]

TreeLeaves(v) ==
  IF v.k = "none" THEN <<>>
  ELSE IF v.k = "indexer"
       THEN [i \in 1..Len(v.indices) |-> IntLeaf(v.indices[i])]
       ELSE <<v>>

RECURSIVE FlatLeaves(_)
FlatLeaves(args) ==
  IF Len(args) = 0 THEN <<>>
  ELSE TreeLeaves(Head(args)) \o FlatLeaves(Tail(args))

tree_flatten(args) ==
  [leaves |-> FlatLeaves(args),
   tree |-> [i \in 1..Len(args) |-> TreeNode(args[i])]]

RECURSIVE Unflatten(_, _, _)
Unflatten(tree, leaves, pos) ==
  IF Len(tree) = 0 THEN <<>>
  ELSE LET nd == Head(tree)
           v == IF nd.kind = "none" THEN None
                ELSE IF nd.kind = "indexer"
                     THEN NDIndexer([i \in 1..nd.n |-> leaves[pos + i - 1].id],
                                    nd.shape)
                     ELSE leaves[pos]
       IN <<v>> \o Unflatten(Tail(tree), leaves, pos + nd.n)

tree_unflatten(tree, leaves) == Unflatten(tree, leaves, 1)

\* ------------------------------------------------- indexing (external)
\* NDIndexer.from_indices_shape: the region descriptor of `indices` in a
\* buffer of `shape`, or an error when the indices do not fit the shape.
from_indices_shape(indices, shape) ==
  IF Len(indices) > Len(shape)
     \/ \E i \in 1..Len(indices) : indices[i] >= shape[i]
  THEN [err |-> "IndexError", value |-> None]
  ELSE [err |-> "", value |-> NDIndexer(indices, shape)]

\* ------------------------------------------------------------------ DMA
\* (reference, raw indices) pairs a caller passes; BadRegion does not fit.
GoodRegions ==
  {[ref |-> Ref(1, <<2>>), indices |-> <<0>>],
   [ref |-> Ref(2, <<2, 2>>), indices |-> <<1, 1>>]}

BadRegion == [ref |-> Ref(1, <<2>>), indices |-> <<0, 1>>]

\* (source, destination) pairs: every pair of fitting regions, and a pair
\* with a source, and one with a destination, that does not fit.
Transfers ==
  (GoodRegions \X GoodRegions)
    \cup {<<BadRegion, [ref |-> Ref(2, <<2, 2>>), indices |-> <<1, 1>>]>>,
          <<[ref |-> Ref(2, <<2, 2>>), indices |-> <<1, 1>>], BadRegion>>}

DMASems == {Semaphore(1, "DMA"), Semaphore(2, "DMA")}

DeviceIds == {Array("int32", 2)}

DMAFuture(flat_args, tree) == [flat_args |-> flat_args, tree |-> tree]

\* DMAFuture.wait's bind
dma_wait_bind(self) == Bind("dma_wait", self.flat_args, self.tree, NoParams, {})

\* Variant: a future that refuses a second wait().
DMAFuture_wait_once(i) ==
  /\ ~exc
  /\ IF hist[i].waits = 0
     THEN /\ ops' = Append(ops, dma_wait_bind(futures[i]))
          /\ hist' = [hist EXCEPT ![i].waits = @ + 1]
          /\ last' = Call("wait", <<>>, "", <<i>>, NoJaxpr)
     ELSE /\ last' = Call("wait", <<>>, "RuntimeError", <<i>>, NoJaxpr)
          /\ UNCHANGED <<ops, hist>>
  /\ UNCHANGED <<futures, stack, exc>>

\* DMAFuture.wait(): no guard, no change to self.
DMAFuture_wait(i) ==
  /\ ~exc
  /\ ops' = Append(ops, dma_wait_bind(futures[i]))
  /\ hist' = [hist EXCEPT ![i].waits = @ + 1]
  /\ last' = Call("wait", <<>>, "", <<i>>, NoJaxpr)
  /\ UNCHANGED <<futures, stack, exc>>

dma_start_args(src_ref, src_indexer, dst_ref, dst_indexer, sem) ==
  <<src_ref, src_indexer, dst_ref, dst_indexer, sem, None, None>>

\* Variant: the future keyed on the source side.
dma_start_wait_args_src(src_ref, src_indexer, dst_ref, dst_indexer, sem) ==
  <<sem, src_ref, src_indexer>>

dma_start_wait_args(src_ref, src_indexer, dst_ref, dst_indexer, sem) ==
  <<sem, dst_ref, dst_indexer>>

dma_start(src_ref, src_indices, dst_ref, dst_indices, sem) ==
  LET src_indexer == from_indices_shape(src_indices, src_ref.shape)
      dst_indexer == from_indices_shape(dst_indices, dst_ref.shape)
      inputs == <<src_ref, Indices(src_indices), dst_ref, Indices(dst_indices), sem>>
      flat == tree_flatten(dma_start_args(src_ref, src_indexer.value,
                                          dst_ref, dst_indexer.value, sem))
      wait == tree_flatten(dma_start_wait_args(src_ref, src_indexer.value,
                                               dst_ref, dst_indexer.value, sem))
  IN /\ ~exc
     /\ IF src_indexer.err # "" \/ dst_indexer.err # ""
        THEN /\ last' = Call("dma_start", <<>>, "IndexError", <<>>, NoJaxpr)
             /\ UNCHANGED <<ops, futures, hist>>
        ELSE /\ ops' = Append(ops, Bind("dma_start", flat.leaves, flat.tree,
                                        NoParams, {}))
             /\ futures' = Append(futures, DMAFuture(wait.leaves, wait.tree))
             /\ hist' = Append(hist, [role |-> "local", waits |-> 0, inputs |-> inputs])
             /\ last' = Call("dma_start", inputs, "", <<Len(futures) + 1>>, NoJaxpr)
     /\ UNCHANGED <<stack, exc>>

remote_dma_start_args(src_ref, src_indexer, dst_ref, dst_indexer, src_sem, dst_sem, device_id) ==
  <<src_ref, src_indexer, dst_ref, dst_indexer, dst_sem, src_sem, device_id>>

\* Variant: the receive future keyed on the sender's semaphore.
recv_wait_args_src_sem(src_ref, src_indexer, dst_ref, dst_indexer, src_sem, dst_sem) ==
  <<src_sem, dst_ref, dst_indexer>>

recv_wait_args(src_ref, src_indexer, dst_ref, dst_indexer, src_sem, dst_sem) ==
  <<dst_sem, dst_ref, dst_indexer>>

\* Variant: the send future keyed on the receiver's semaphore.
send_wait_args_dst_sem(src_ref, src_indexer, dst_ref, dst_indexer, src_sem, dst_sem) ==
  <<dst_sem, src_ref, src_indexer>>

send_wait_args(src_ref, src_indexer, dst_ref, dst_indexer, src_sem, dst_sem) ==
  <<src_sem, src_ref, src_indexer>>

\* Variant: the pair returned in the other order.
remote_dma_start_return_swapped(send, recv) == <<recv, send>>

remote_dma_start_return(send, recv) == <<send, recv>>

remote_dma_start(src_ref, src_indices, dst_ref, dst_indices, src_sem, dst_sem, device_id) ==
  LET src_indexer == from_indices_shape(src_indices, src_ref.shape)
      dst_indexer == from_indices_shape(dst_indices, dst_ref.shape)
      inputs == <<src_ref, Indices(src_indices), dst_ref, Indices(dst_indices),
                  src_sem, dst_sem, device_id>>
      flat == tree_flatten(remote_dma_start_args(
                src_ref, src_indexer.value, dst_ref, dst_indexer.value,
                src_sem, dst_sem, device_id))
      recv == tree_flatten(recv_wait_args(
                src_ref, src_indexer.value, dst_ref, dst_indexer.value,
                src_sem, dst_sem))
      send == tree_flatten(send_wait_args(
                src_ref, src_indexer.value, dst_ref, dst_indexer.value,
                src_sem, dst_sem))
      made == remote_dma_start_return(
                [f |-> DMAFuture(send.leaves, send.tree), role |-> "send"],
                [f |-> DMAFuture(recv.leaves, recv.tree), role |-> "recv"])
  IN /\ ~exc
     /\ IF src_indexer.err # "" \/ dst_indexer.err # ""
        THEN /\ last' = Call("remote_dma_start", <<>>, "IndexError", <<>>, NoJaxpr)
             /\ UNCHANGED <<ops, futures, hist>>
        ELSE /\ ops' = Append(ops, Bind("dma_start", flat.leaves, flat.tree,
                                        NoParams, {}))
             /\ futures' = futures \o <<made[1].f, made[2].f>>
             /\ hist' = hist \o
                  <<[role |-> made[1].role, waits |-> 0, inputs |-> inputs],
                    [role |-> made[2].role, waits |-> 0, inputs |-> inputs]>>
             /\ last' = Call("remote_dma_start", inputs, "",
                             <<Len(futures) + 1, Len(futures) + 2>>, NoJaxpr)
     /\ UNCHANGED <<stack, exc>>

\* ------------------------------------------------------- specifications
Range(s) == {s[i] : i \in DOMAIN s}

OpTuple(op) == tree_unflatten(op.tree, op.args)

FutureTuple(f) == tree_unflatten(f.tree, f.flat_args)

\* The region descriptor of raw indices (an Indices value) in a reference.
Region(ix, ref) == from_indices_shape(ix.indices, ref.shape).value

LastOp == ops[Len(ops)]

Init ==
  /\ ops = <<>>
  /\ futures = <<>>
  /\ hist = <<>>
  /\ stack = <<>>
  /\ exc = FALSE
  /\ last = NoCall

\* A call that emits needs room in the bounded context; one that raises
\* before emitting does not.
Fits(region) == from_indices_shape(region.indices, region.ref.shape).err = ""

StartCalls(room) ==
  \/ \E t \in Transfers, sem \in DMASems :
        /\ room \/ ~Fits(t[1]) \/ ~Fits(t[2])
        /\ dma_start(t[1].ref, t[1].indices, t[2].ref, t[2].indices, sem)
  \/ \E t \in Transfers, ss \in DMASems, ds \in DMASems, dev \in DeviceIds :
        /\ room \/ ~Fits(t[1]) \/ ~Fits(t[2])
        /\ remote_dma_start(t[1].ref, t[1].indices, t[2].ref, t[2].indices,
                            ss, ds, dev)

\* Any sequence of start, remote_start and wait calls.
NextDMA ==
  \/ StartCalls(Len(ops) < MaxOps)
  \/ \E i \in 1..Len(futures) : Len(ops) < MaxOps /\ DMAFuture_wait(i)

SpecDMA == Init /\ [][NextDMA]_vars

\* One start or remote_start, then wait() calls on the futures it returned.
NextWait ==
  \/ StartCalls(Len(ops) = 0)
  \/ \E i \in 1..Len(futures) : Len(ops) < 1 + MaxWaits /\ DMAFuture_wait(i)

SpecWait == Init /\ [][NextWait]_vars

\* ---------------------------------------------------------------- trace
Messages == {"fwd", "bwd"}

Levels == {10, 20}

\* trace(message, level), up to its yield: bind trace_start, enter the region.
trace_enter(message, level) ==
  /\ ~exc
  /\ ops' = Append(ops, Bind("trace_start", <<>>, <<>>,
                             [NoParams EXCEPT !.message = message,
                                              !.level = level], {}))
  /\ stack' = Append(stack, [message |-> message, level |-> level])
  /\ UNCHANGED <<futures, hist, exc, last>>

\* The guarded region ends normally: the generator resumes after its yield
\* and binds trace_stop.
trace_exit ==
  /\ ~exc
  /\ Len(stack) > 0
  /\ ops' = Append(ops, Bind("trace_stop", <<>>, <<>>, NoParams, {}))
  /\ stack' = SubSeq(stack, 1, Len(stack) - 1)
  /\ UNCHANGED <<futures, hist, exc, last>>

\* The guarded region raises.
body_raise ==
  /\ ~exc
  /\ Len(stack) > 0
  /\ exc' = TRUE
  /\ UNCHANGED <<ops, futures, hist, stack, last>>

\* The exception is thrown into the generator at its yield; nothing there
\* catches it, so the generator ends without reaching the trace_stop bind
\* and the exception goes on to the enclosing code.
trace_exit_raising ==
  /\ exc
  /\ Len(stack) > 0
  /\ stack' = SubSeq(stack, 1, Len(stack) - 1)
  /\ UNCHANGED <<ops, futures, hist, exc, last>>

\* The caller's code around the scope handles the exception.
caller_catches ==
  /\ exc
  /\ exc' = FALSE
  /\ UNCHANGED <<ops, futures, hist, stack, last>>

NextTrace ==
  \/ \E m \in Messages, l \in Levels :
        /\ Count(ops, "trace_start") < MaxScopes
        /\ Len(stack) < MaxDepth
        /\ trace_enter(m, l)
  \/ trace_exit
  \/ body_raise
  \/ trace_exit_raising
  \/ caller_catches

SpecTrace == Init /\ [][NextTrace]_vars

\* C1: on every exit path from the guarded region, including an exception,
\* one trace_stop follows the trace_start emitted on entry: the scopes that
\* were left have each emitted their trace_stop.
C1_StopOnEveryExit ==
  Count(ops, "trace_start") = Count(ops, "trace_stop") + Len(stack)

\* ----------------------------------------------------------- semaphores
SemOperands ==
  {Semaphore(1, "REGULAR"), Semaphore(2, "DMA"), Semaphore(3, "BARRIER"),
   Array("int32", 2)}

\* 1, 2 and 1.5
Amounts == {Array("int32", 2), Array("int32", 4), Array("float32", 3)}

DeviceIdChoices == {None, Array("int32", 0), Array("float32", 0)}

\* jnp.asarray(x, dtype=jnp.int32): the value converted, truncating.
asarray_int32(x) == Array("int32", 2 * (x.id \div 2))

\* Variant: only a DMA semaphore is refused.
semaphore_signal_abstract_eval_dma_only(sem_aval, value, args, has_device_id) ==
  IF sem_aval.k # "sem" THEN "Cannot signal on a non-semaphore value"
  ELSE IF sem_aval.ty = "DMA" THEN "Must signal a REGULAR semaphore."
  ELSE IF value.ty # "int32" THEN "Must signal an int32 value."
  ELSE IF has_device_id /\ args[1].ty # "int32"
       THEN "device_id must be an int32 value."
       ELSE ""

\* The error raised, "" when the rule returns [].
semaphore_signal_abstract_eval(sem_aval, value, args, has_device_id) ==
  IF sem_aval.k # "sem" THEN "Cannot signal on a non-semaphore value"
  ELSE IF sem_aval.ty # "REGULAR" THEN "Must signal a REGULAR semaphore."
  ELSE IF value.ty # "int32" THEN "Must signal an int32 value."
  ELSE IF has_device_id /\ args[1].ty # "int32"
       THEN "device_id must be an int32 value."  \* the source quotes `device_id`
       ELSE ""

semaphore_signal(sem, inc, device_id) ==
  LET value == asarray_int32(inc)
      has_device_id == device_id # None
      args == IF has_device_id THEN <<sem, value, device_id>> ELSE <<sem, value>>
      err == semaphore_signal_abstract_eval(sem, value, SubSeq(args, 3, Len(args)),
                                            has_device_id)
  IN /\ ~exc
     /\ last' = Call("semaphore_signal", <<sem, inc, device_id>>, err, <<>>, NoJaxpr)
     /\ IF err # ""
        THEN UNCHANGED ops
        ELSE ops' = Append(ops, Bind("semaphore_signal", args, <<>>,
                             [NoParams EXCEPT !.has_device_id = has_device_id], {}))
     /\ UNCHANGED <<futures, hist, stack, exc>>

semaphore_wait_abstract_eval(sem_aval, value) ==
  IF sem_aval.k # "sem" THEN "Cannot wait on a non-semaphore value"
  ELSE IF sem_aval.ty # "REGULAR" THEN "Must wait a REGULAR semaphore."
  ELSE IF value.ty # "int32" THEN "Must signal an int32 value."
  ELSE ""

semaphore_wait(sem, dec) ==
  LET value == asarray_int32(dec)
      err == semaphore_wait_abstract_eval(sem, value)
  IN /\ ~exc
     /\ last' = Call("semaphore_wait", <<sem, dec>>, err, <<>>, NoJaxpr)
     /\ IF err # ""
        THEN UNCHANGED ops
        ELSE ops' = Append(ops, Bind("semaphore_wait", <<sem, value>>, <<>>,
                                    NoParams, {}))
     /\ UNCHANGED <<futures, hist, stack, exc>>

SignalRaises(sem, inc, dev) ==
  semaphore_signal_abstract_eval(
    sem, asarray_int32(inc), IF dev = None THEN <<>> ELSE <<dev>>, dev # None) # ""

WaitRaises(sem, dec) == semaphore_wait_abstract_eval(sem, asarray_int32(dec)) # ""

NextSem ==
  \/ \E sem \in SemOperands, inc \in Amounts, dev \in DeviceIdChoices :
        /\ Len(ops) < MaxSemOps \/ SignalRaises(sem, inc, dev)
        /\ semaphore_signal(sem, inc, dev)
  \/ \E sem \in SemOperands, dec \in Amounts :
        /\ Len(ops) < MaxSemOps \/ WaitRaises(sem, dec)
        /\ semaphore_wait(sem, dec)

SpecSem == Init /\ [][NextSem]_vars

IsSemCall(c) == c.call \in {"semaphore_signal", "semaphore_wait"}

\* C2: signal / wait on a REGULAR semaphore with an amount that is not a
\* 32-bit integer is rejected with the dtype error, and nothing is emitted.
C2_RejectsNonInt32 ==
  (/\ IsSemCall(last)
   /\ last.args[1] = Semaphore(1, "REGULAR")
   /\ last.args[2].ty # "int32") =>
    last.err = "Must signal an int32 value."

\* C3 as stated: signal and wait on a semaphore that is not REGULAR both
\* raise the error "Must signal a REGULAR semaphore."
C3_Original ==
  (/\ IsSemCall(last)
   /\ last.args[1].k = "sem"
   /\ last.args[1].ty # "REGULAR") =>
    last.err = "Must signal a REGULAR semaphore."

C3_State ==
  IsSemCall(last) =>
    /\ (last.args[1].k = "sem" /\ last.args[1].ty # "REGULAR") =>
         last.err = IF last.call = "semaphore_signal"
                    THEN "Must signal a REGULAR semaphore."
                    ELSE "Must wait a REGULAR semaphore."
    /\ last.args[1].k # "sem" =>
         last.err = IF last.call = "semaphore_signal"
                    THEN "Cannot signal on a non-semaphore value"
                    ELSE "Cannot wait on a non-semaphore value"

C3_Step == (IsSemCall(last') /\ last'.err # "") => ops' = ops

\* C3 (amended): for every semaphore operand that is not REGULAR and every
\* choice of the other operands, signal raises "Must signal a REGULAR
\* semaphore." and wait raises "Must wait a REGULAR semaphore.", and nothing
\* is emitted; an operand that is no semaphore is refused before the kind
\* and dtype checks.
C3_RejectsNonRegular == [](C3_State) /\ [][C3_Step]_vars

\* A signal on a non-REGULAR semaphore with a device id, after an emission.
C3_Witness ==
  /\ last.call = "semaphore_signal"
  /\ last.args[1] = Semaphore(3, "BARRIER")
  /\ last.args[3] # None
  /\ last.err # ""
  /\ Len(ops) > 0

\* ----------------------------------------------------------- run_scoped
\* An effect of a jaxpr: a JaxprInputEffect on input number input_index
\* (constvars first, then invars), or an effect on no input.
InputEffect(i) == [input |-> TRUE, input_index |-> i]

OtherEffect == [input |-> FALSE, input_index |-> 0]

\* How many resources a body asks run_scoped to allocate.
AllocCounts == {1, 2}

BodyErrors == {"TypeError", "ValueError"}

Jaxprs ==
  UNION {[nconsts : {c}, ninvars : {n}, neqns : {1},
          effects : SUBSET ({OtherEffect} \cup {InputEffect(i) : i \in 0..(c + n - 1)})]
         : c \in 0..MaxConsts, n \in AllocCounts}

\* A body: either tracing it raises, or it traces to a jaxpr.
Bodies ==
  {[raises |-> e, jaxpr |-> NoJaxpr] : e \in BodyErrors}
    \cup {[raises |-> "", jaxpr |-> j] : j \in Jaxprs}

\* pe.trace_to_jaxpr_dynamic: the body is traced in a context of its own;
\* its equations go to the jaxpr, the caller's context is not written.
trace_to_jaxpr_dynamic(body) ==
  [err |-> body.raises,
   jaxpr |-> body.jaxpr,
   consts |-> [i \in 1..body.jaxpr.nconsts |-> Ref(i, <<2>>)]]

\* Variant: the boundary effect is kept.
run_scoped_abstract_eval_off_by_one(args, jaxpr) ==
  [results |-> <<>>,
   effects |-> {eff \in jaxpr.effects :
                 ~(eff.input /\ eff.input_index > jaxpr.nconsts)}]

run_scoped_abstract_eval(args, jaxpr) ==
  [results |-> <<>>,
   effects |-> {eff \in jaxpr.effects :
                 ~(eff.input /\ eff.input_index >= jaxpr.nconsts)}]

run_scoped_bind(consts, jaxpr) ==
  LET out == run_scoped_abstract_eval(consts, jaxpr)
  IN [Bind("run_scoped", consts, <<>>, [NoParams EXCEPT !.jaxpr = jaxpr],
           out.effects) EXCEPT !.results = out.results]

\* Variant: the scope is bound even though tracing the body raised.
run_scoped_emit_always(traced) ==
  Append(ops, run_scoped_bind(traced.consts, traced.jaxpr))

\* The caller's equations after run_scoped: the bind is reached only when
\* tracing returned.
run_scoped_emit(traced) ==
  IF traced.err # "" THEN ops
  ELSE Append(ops, run_scoped_bind(traced.consts, traced.jaxpr))

run_scoped(body) ==
  LET traced == trace_to_jaxpr_dynamic(body)
  IN /\ ~exc
     /\ ops' = run_scoped_emit(traced)
     /\ last' = Call("run_scoped", <<Val("body", 0, body.raises, <<>>, <<>>)>>,
                     traced.err, <<>>, body.jaxpr)
     /\ UNCHANGED <<futures, hist, stack, exc>>

NextScoped ==
  \E body \in Bodies :
    /\ Len(ops) < MaxScopedOps \/ body.raises # ""
    /\ run_scoped(body)

SpecScoped == Init /\ [][NextScoped]_vars

\* C4: with c constant inputs and declared effects E, the effects exposed
\* by the run_scoped equation are exactly the e in E that are no input
\* effect or are an input effect with input index < c; the equation has no
\* results.
C4_ExposedEffects ==
  (last.call = "run_scoped" /\ last.err = "") =>
    LET c == last.jaxpr.nconsts
        E == last.jaxpr.effects
    IN /\ Len(ops) > 0
       /\ LastOp.name = "run_scoped"
       /\ Len(LastOp.args) = c
       /\ LastOp.effects = {e \in E : ~e.input \/ e.input_index < c}
       /\ LastOp.results = <<>>

\* A body that touches a captured resource, its allocated resources (the
\* first of them sits at the boundary) and something that is no input.
C4_Witness ==
  /\ last.call = "run_scoped"
  /\ last.err = ""
  /\ last.jaxpr.nconsts = 1
  /\ last.jaxpr.effects = {OtherEffect, InputEffect(0), InputEffect(1), InputEffect(2)}

\* C8: when tracing the body raises, the error reaches the caller as raised
\* and nothing is committed: no run_scoped equation, the caller's equations
\* as before the call.
C8_FailedTraceCommitsNothing ==
  [][(last'.call = "run_scoped" /\ last'.args[1].ty # "") =>
       /\ last'.err = last'.args[1].ty
       /\ ops' = ops]_vars

C8_Witness ==
  /\ last.call = "run_scoped"
  /\ last.err \in BodyErrors
  /\ Len(ops) > 0

\* ------------------------------------------------------------ DMA claims
RECURSIVE SumWaits(_)
SumWaits(h) == IF Len(h) = 0 THEN 0 ELSE Head(h).waits + SumWaits(Tail(h))

WaitsOver(f) ==
  Cardinality({j \in DOMAIN ops :
    /\ ops[j].name = "dma_wait"
    /\ ops[j].args = f.flat_args
    /\ ops[j].tree = f.tree})

\* C5: for valid inputs, dma_start followed by wait() on the returned future
\* does not raise, and the future's flat operands, rebuilt through its tree,
\* are exactly (semaphore, dest_ref, dest_region), with dest_region built
\* from dest_indices and dest_ref's shape; the wait is emitted over them.
C5_StartWaitRoundTrip ==
  /\ \A i \in 1..Len(futures) :
       hist[i].role = "local" =>
         LET a == hist[i].inputs
         IN FutureTuple(futures[i]) = <<a[5], a[3], Region(a[4], a[3])>>
  /\ (last.call = "wait" /\ hist[last.ret[1]].role = "local") =>
       /\ last.err = ""
       /\ LastOp.name = "dma_wait"
       /\ LET a == hist[last.ret[1]].inputs
          IN OpTuple(LastOp) = <<a[5], a[3], Region(a[4], a[3])>>

C5_Witness ==
  /\ last.call = "wait"
  /\ hist[last.ret[1]].role = "local"
  /\ hist[last.ret[1]].inputs[1] # hist[last.ret[1]].inputs[3]

C6_State ==
  (last.call = "remote_dma_start" /\ last.err = "") =>
    LET a == last.args
        src_region == Region(a[2], a[1])
        dst_region == Region(a[4], a[3])
    IN /\ Len(ops) > 0
       /\ LastOp.name = "dma_start"
       /\ OpTuple(LastOp) =
            <<a[1], src_region, a[3], dst_region, a[6], a[5], a[7]>>
       /\ Len(last.ret) = 2
       /\ FutureTuple(futures[last.ret[1]]) = <<a[5], a[1], src_region>>
       /\ FutureTuple(futures[last.ret[2]]) = <<a[6], a[3], dst_region>>

C6_Step ==
  (last'.call = "remote_dma_start" /\ last'.err = "") =>
    /\ Len(ops') = Len(ops) + 1
    /\ Len(futures') = Len(futures) + 2
    /\ last'.ret = <<Len(futures) + 1, Len(futures) + 2>>

\* C6: remote_dma_start emits exactly one dma_start over (source_ref,
\* source_region, dest_ref, dest_region, dest_semaphore, source_semaphore,
\* device_id) and returns (send_future, receive_future) in that order: the
\* first rebuilds to (source_semaphore, source_ref, source_region), the
\* second to (dest_semaphore, dest_ref, dest_region).
C6_RemoteStart == [](C6_State) /\ [][C6_Step]_vars

C6_Witness ==
  /\ last.call = "remote_dma_start"
  /\ last.err = ""
  /\ last.args[5] # last.args[6]
  /\ last.args[1] # last.args[3]
  /\ Len(ops) > 1

\* The operands of one side of a transfer, as they appear in a flat list.
SideOperands(sem, ref, ix) ==
  {sem, ref} \cup {IntLeaf(ix.indices[k]) : k \in 1..Len(ix.indices)}

SrcSide(a) == SideOperands(a[5], a[1], a[2])

DstSide(a) == SideOperands(a[6], a[3], a[4])

IsWaitStep ==
  /\ last'.call = "wait"
  /\ <<ops, hist, last>>' # <<ops, hist, last>>

\* What a wait() on future i must do and leave alone.
WaitEffect(i) ==
  /\ last'.err = ""
  /\ ops' = Append(ops, Bind("dma_wait", futures[i].flat_args,
                             futures[i].tree, NoParams, {}))
  /\ futures' = futures

\* C7 as stated: for every remote_dma_start the two futures' stored operand
\* sets are disjoint.
C7_Original ==
  \A i \in 1..Len(futures) :
    hist[i].role = "send" =>
      Range(futures[i].flat_args) \cap Range(futures[i + 1].flat_args) = {}

C7_State ==
  \A i \in 1..Len(futures) :
    hist[i].role = "send" =>
      LET a == hist[i].inputs
      IN /\ hist[i + 1].role = "recv"
         /\ Range(futures[i].flat_args) = SrcSide(a)
         /\ Range(futures[i + 1].flat_args) = DstSide(a)
         /\ (SrcSide(a) \cap DstSide(a) = {}) =>
              Range(futures[i].flat_args)
                \cap Range(futures[i + 1].flat_args) = {}
         /\ ENABLED DMAFuture_wait(i)
         /\ ENABLED DMAFuture_wait(i + 1)

C7_Step ==
  IsWaitStep =>
    /\ WaitEffect(last'.ret[1])
    /\ \A j \in 1..Len(hist) : j # last'.ret[1] => hist'[j] = hist[j]

\* C7 (amended): the two futures of a remote_dma_start are two objects; the
\* send future stores exactly the source-side operands and the receive
\* future exactly the destination-side operands, so the stored sets are
\* disjoint whenever the call's source side and destination side share no
\* operand; wait() on either is possible in any order or alone, emits a
\* dma_wait over its own operands only and changes no future.
C7_Independent == [](C7_State) /\ [][C7_Step]_vars

\* The receive future waited on while the send future never was, in a call
\* whose two sides share nothing.
C7_Witness ==
  /\ last.call = "wait"
  /\ hist[last.ret[1]].role = "recv"
  /\ hist[last.ret[1] - 1].waits = 0
  /\ SrcSide(hist[last.ret[1]].inputs) \cap DstSide(hist[last.ret[1]].inputs) = {}

C9_State ==
  /\ Count(ops, "dma_wait") = SumWaits(hist)
  /\ \A i \in 1..Len(futures) :
       /\ WaitsOver(futures[i]) >= hist[i].waits
       /\ ENABLED DMAFuture_wait(i)
  /\ last.call = "wait" => last.err = ""

C9_Step == IsWaitStep => WaitEffect(last'.ret[1])

\* C9: wait() has no guard against repeated use: k calls on one future never
\* raise and emit k dma_wait equations over the same stored flat operands
\* and tree, each call leaving the future unchanged; and a future may stay
\* unwaited.
C9_RepeatedWait == [](C9_State) /\ [][C9_Step]_vars

C9_Witness ==
  \E i, j \in 1..Len(futures) :
    /\ hist[i].waits >= 2
    /\ WaitsOver(futures[i]) = hist[i].waits
    /\ hist[j].waits = 0
    /\ Len(ops) = 1 + MaxWaits

C10_State ==
  \A j \in DOMAIN ops :
    ops[j].name = "dma_wait" =>
      \E i \in 1..(j - 1) :
        /\ ops[i].name = "dma_start"
        /\ LET w == OpTuple(ops[j])
               s == OpTuple(ops[i])
           IN \/ w = <<s[5], s[3], s[4]>>
              \/ w = <<s[6], s[1], s[2]>>

C10_Step ==
  (last'.call \in {"dma_start", "remote_dma_start"} /\ last'.err # "") =>
    /\ ops' = ops
    /\ futures' = futures

\* C10: every emitted dma_wait is preceded by a dma_start whose operands
\* hold the same semaphore, reference and region descriptor; and when the
\* region descriptor of the source or the destination cannot be built, no
\* dma_start is emitted and no future is made.
C10_WaitAfterStart == [](C10_State) /\ [][C10_Step]_vars

C10_Witness ==
  /\ \E j \in DOMAIN ops : ops[j].name = "dma_wait"
  /\ last.err = "IndexError"

\* ----------------------------------------------------- the whole module
\* All public functions in one context. Each family of primitives above has
\* a specification of its own, since the families share no state but the
\* list of equations.
Next == NextDMA \/ NextTrace \/ NextSem \/ NextScoped

Spec == Init /\ [][Next]_vars

====
